---- MODULE Spec2Model ----
(***************************************************************************)
(* Model of gamble/models/cards.py: Card, Hand and Deck.                   *)
(*                                                                         *)
(* A card is the record [value, suit] of the strengths of its Value and    *)
(* Suit namespaces.  Python lists are objects: `heap` maps a list identity *)
(* to the list's contents, and a deck holds the identity of its list, so   *)
(* that two names of one list see each other's changes.                    *)
(***************************************************************************)
EXTENDS Integers, Sequences, FiniteSets, Bags, TLC

VARIABLES
    heap,    \* list identity -> contents (a sequence of cards)
    decks,   \* deck identity -> [cards (a list identity), shuffles, draws]
    hand,    \* the Hand most recently constructed, or NoHand
    last,    \* the call that produced this state, with its outcome
    initial, \* deck identity -> number of cards the deck held once constructed
    drawn    \* deck identity -> bag of the cards the deck's list.pop() removed

vars == <<heap, decks, hand, last, initial, drawn>>

----------------------------------------------------------------------------
(* Bounds of the model *)

MaxSupplied == 2    \* longest caller-supplied card list
MaxTimes == 2       \* largest `times` / `size` argument
MaxShuffles == 3    \* cap of the shuffle counter
MaxDraws == 5       \* cap of the draw counter
MaxHandSize == 4    \* Hand specification: longest hand given to Hand(...)

----------------------------------------------------------------------------
(* Card.Suits, Card.Values *)

SuitsAll == <<0, 1, 2, 3>>                                  \* spades, clubs, diamonds, hearts
ValuesAll == <<1, 2, 3, 4, 5, 6, 7, 8, 9, 10, 11, 12, 13>>  \* ace .. king

Range(s) == {s[i] : i \in DOMAIN s}

Card(v, s) == [value |-> v, suit |-> s]

(* Card.__lt__, __gt__, __eq__, __le__, __ge__ *)
CardLt(a, b) == a.value < b.value
CardGt(a, b) == a.value > b.value
CardEq(a, b) == a.suit = b.suit /\ a.value = b.value
CardLe(a, b) == CardLt(a, b) \/ CardEq(a, b)
CardGe(a, b) == CardGt(a, b) \/ CardEq(a, b)

----------------------------------------------------------------------------
(* Hand *)

Rank(v, n) == [value |-> v, name |-> n]
STRAIGHT_FLUSH == Rank(8, "straight flush")
FOUR_OF_A_KIND == Rank(7, "four of a kind")
FULL_HOUSE == Rank(6, "full house")
FLUSH == Rank(5, "flush")
STRAIGHT == Rank(4, "straight")
THREE_OF_A_KIND == Rank(3, "three of a kind")
TWO_PAIR == Rank(2, "two pair")
PAIR == Rank(1, "pair")
HIGH_CARD == Rank(0, "high card")

Ranks == {STRAIGHT_FLUSH, FOUR_OF_A_KIND, FULL_HOUSE, FLUSH, STRAIGHT,
          THREE_OF_A_KIND, TWO_PAIR, PAIR, HIGH_CARD}

SetMax(S) == CHOOSE x \in S : \A y \in S : y <= x
SetMin(S) == CHOOSE x \in S : \A y \in S : x <= y

(* sorted(cards): stable, and compares with Card.__lt__ only. Insert puts c *)
(* behind every card that is not greater than it.                          *)
RECURSIVE Insert(_, _)
Insert(s, c) ==
    IF s = <<>> THEN <<c>>
    ELSE IF CardLt(c, s[Len(s)]) THEN Append(Insert(SubSeq(s, 1, Len(s) - 1), c), s[Len(s)])
    ELSE Append(s, c)

RECURSIVE Sorted(_)
Sorted(s) == IF s = <<>> THEN <<>> ELSE Insert(Sorted(SubSeq(s, 1, Len(s) - 1)), s[Len(s)])

(* Counter(xs): the elements of xs, each with its number of occurrences *)
Counter(xs) == [x \in Range(xs) |-> Cardinality({i \in DOMAIN xs : xs[i] = x})]

(* Hand.__init__ *)
HandNew(cards) ==
    LET srt == Sorted(cards) IN
    [_cards |-> cards,
     cards |-> srt,
     size |-> Len(srt),
     value_counts |-> Counter([i \in DOMAIN srt |-> srt[i].value]),
     suit_counts |-> Counter([i \in DOMAIN srt |-> srt[i].suit])]

(* sorted(counts, reverse=True) of the values of a Counter *)
RECURSIVE SortedDesc(_)
SortedDesc(cnt) ==
    IF DOMAIN cnt = {} THEN <<>>
    ELSE LET k == CHOOSE k \in DOMAIN cnt : \A j \in DOMAIN cnt : cnt[j] <= cnt[k]
         IN <<cnt[k]>> \o SortedDesc([j \in DOMAIN cnt \ {k} |-> cnt[j]])

(* Hand._vals *)
Vals(h) == SortedDesc(h.value_counts)

(* a Python slice s[0:2] *)
Slice2(s) == SubSeq(s, 1, IF Len(s) < 2 THEN Len(s) ELSE 2)

is_four_of_a_kind(h) == Vals(h)[1] = 4
is_full_house(h) == Slice2(Vals(h)) = <<3, 2>>
is_flush(h) == Cardinality({h.cards[i].suit : i \in DOMAIN h.cards}) = 1

(* check without its test of the number of distinct values *)
StraightCheckRangeOnly(value_set, size) ==
    SetMax(value_set) - SetMin(value_set) = size - 1

(* the inner function check of Hand.is_straight *)
StraightCheck(value_set, size) ==
    LET value_range == SetMax(value_set) - SetMin(value_set)
    IN (value_range = size - 1) /\ (Cardinality(value_set) = size)

(* the ace left at 1 in the second value set *)
HighAceSame(x) == x

HighAce(x) == IF x # 1 THEN x ELSE 14

is_straight(h) ==
    LET values == [i \in DOMAIN h.cards |-> h.cards[i].value]
        low_ace == Range(values)
        high_ace == {HighAce(x) : x \in Range(values)}
    IN StraightCheck(low_ace, h.size) \/ StraightCheck(high_ace, h.size)

is_straight_flush(h) == is_flush(h) /\ is_straight(h)
is_three_of_a_kind(h) == Vals(h)[1] = 3
is_two_pair(h) == Slice2(Vals(h)) = <<2, 2>>
is_one_pair(h) == Vals(h)[1] = 2

(* rank with the pair tested before the two pair *)
HandRankPairFirst(h) ==
    IF is_straight_flush(h) THEN STRAIGHT_FLUSH
    ELSE IF is_four_of_a_kind(h) THEN FOUR_OF_A_KIND
    ELSE IF is_full_house(h) THEN FULL_HOUSE
    ELSE IF is_flush(h) THEN FLUSH
    ELSE IF is_straight(h) THEN STRAIGHT
    ELSE IF is_three_of_a_kind(h) THEN THREE_OF_A_KIND
    ELSE IF is_one_pair(h) THEN PAIR
    ELSE IF is_two_pair(h) THEN TWO_PAIR
    ELSE HIGH_CARD

(* Hand.rank *)
HandRank(h) ==
    IF is_straight_flush(h) THEN STRAIGHT_FLUSH
    ELSE IF is_four_of_a_kind(h) THEN FOUR_OF_A_KIND
    ELSE IF is_full_house(h) THEN FULL_HOUSE
    ELSE IF is_flush(h) THEN FLUSH
    ELSE IF is_straight(h) THEN STRAIGHT
    ELSE IF is_three_of_a_kind(h) THEN THREE_OF_A_KIND
    ELSE IF is_two_pair(h) THEN TWO_PAIR
    ELSE IF is_one_pair(h) THEN PAIR
    ELSE HIGH_CARD

----------------------------------------------------------------------------
(* Deck *)

NoList == -1        \* the argument cards=None
Caller == 0         \* identity of the caller's list; deck d's own list is d

(* the deck specifications enumerate this part of Suits.all() and of        *)
(* Values.all(): spades and clubs, ace and two                             *)
DeckSuits == SubSeq(SuitsAll, 1, 2)
DeckValues == SubSeq(ValuesAll, 1, 2)

Reverse(s) == [i \in DOMAIN s |-> s[Len(s) + 1 - i]]

(* for suit in suits: for value in values: append(Card(value, suit)) *)
Enumerate(suits, values) ==
    [i \in 1..(Len(suits) * Len(values)) |->
        Card(values[((i - 1) % Len(values)) + 1], suits[((i - 1) \div Len(values)) + 1])]

(* the default deck of Deck.__init__: the enumeration, reversed *)
DefaultCards == Reverse(Enumerate(DeckSuits, DeckValues))

BagOfSeq(s) == [c \in Range(s) |-> Cardinality({i \in DOMAIN s : s[i] = c})]

(* random.shuffle(cards): any arrangement of the same cards *)
Arrangements(cards) ==
    IF cards = <<>> THEN {<<>>}
    ELSE {[i \in DOMAIN cards |-> cards[p[i]]] : p \in Permutations(DOMAIN cards)}

(* shuffle counting the call, not its rounds *)
ShuffleLoopOnce(cards, shuffles, times) ==
    IF times > 0
    THEN {[cards |-> a, shuffles |-> shuffles + 1] : a \in Arrangements(cards)}
    ELSE {[cards |-> cards, shuffles |-> shuffles]}

(* the loop of Deck.shuffle on the list's contents and the shuffle counter: *)
(* `times` rounds, each counted; rounds of random.shuffle compose to one    *)
ShuffleLoop(cards, shuffles, times) ==
    IF times > 0
    THEN {[cards |-> a, shuffles |-> shuffles + times] : a \in Arrangements(cards)}
    ELSE {[cards |-> cards, shuffles |-> shuffles]}

(* the last card read and left in the list: cards[-1] for cards.pop() *)
ListPeek(cards) == [rest |-> cards, item |-> cards[Len(cards)]]

(* list.pop() on a non-empty list *)
ListPop(cards) == [rest |-> SubSeq(cards, 1, Len(cards) - 1), item |-> cards[Len(cards)]]

(* the loop of Deck.draw, k rounds to go: the counter is incremented, then  *)
(* the list popped; pop on an empty list raises IndexError, and the cards   *)
(* collected so far are lost with the local list.                          *)
RECURSIVE DrawLoop(_, _, _, _)
DrawLoop(cards, draws, out, k) ==
    IF k <= 0 THEN [cards |-> cards, draws |-> draws, ret |-> out, popped |-> out, raised |-> FALSE]
    ELSE IF cards = <<>>
         THEN [cards |-> cards, draws |-> draws + 1, ret |-> <<>>, popped |-> out, raised |-> TRUE]
         ELSE DrawLoop(ListPop(cards).rest, draws + 1, Append(out, ListPop(cards).item), k - 1)

(* Deck.draw: is_list tells a returned list from a returned Card *)
DeckDraw(cards, draws, times) ==
    LET r == DrawLoop(cards, draws, <<>>, times)
    IN [cards |-> r.cards, draws |-> r.draws, ret |-> r.ret, popped |-> r.popped,
        raised |-> r.raised, is_list |-> (times # 1)]

(* Deck.__contains__ *)
DeckContains(cards, item) == \E i \in DOMAIN cards : CardEq(cards[i], item)

(* Deck.cards_left, top, bottom *)
cards_left(d) == Len(heap[decks[d].cards])
top(d) == heap[decks[d].cards][Len(heap[decks[d].cards])]
bottom(d) == heap[decks[d].cards][1]

(* `if cards:` of Deck.__init__: the list the deck is to use, h the heap *)
UsesGiven(h, arg) == arg # NoList /\ h[arg] # <<>>

(* Deck.__init__ of deck d on the state st = [heap, decks, initial, drawn]: *)
(* the states it can end in                                                *)
DeckNew(st, d, arg, shuffle) ==
    LET ref == IF UsesGiven(st.heap, arg) THEN arg ELSE d
        h1 == IF UsesGiven(st.heap, arg) THEN st.heap ELSE (d :> DefaultCards) @@ st.heap
        outs == IF shuffle THEN ShuffleLoop(h1[ref], 0, 1)
                ELSE {[cards |-> h1[ref], shuffles |-> 0]}
    IN {[heap |-> [h1 EXCEPT ![ref] = o.cards],
         decks |-> (d :> [cards |-> ref, shuffles |-> o.shuffles, draws |-> 0]) @@ st.decks,
         initial |-> (d :> Len(o.cards)) @@ st.initial,
         drawn |-> (d :> EmptyBag) @@ st.drawn] : o \in outs}

----------------------------------------------------------------------------
(* The calls on a deck.  Each sets `last` to the call and its outcome;      *)
(* `hand` is the Hand the call returned, NoHand when it returned none.      *)

NoHand == [size |-> -1]
NoObjects == [x \in {} |-> x]

(* Deck.draw(times) on deck d *)
Draw(d, times) ==
    /\ decks[d].draws < MaxDraws
    /\ LET ref == decks[d].cards
           r == DeckDraw(heap[ref], decks[d].draws, times)
       IN /\ heap' = [heap EXCEPT ![ref] = r.cards]
          /\ decks' = [decks EXCEPT ![d].draws = r.draws]
          /\ drawn' = [drawn EXCEPT ![d] = @ (+) BagOfSeq(r.popped)]
          /\ last' = [op |-> "draw", d |-> d, times |-> times, raised |-> r.raised,
                      ret |-> r.ret, is_list |-> r.is_list]
    /\ hand' = NoHand
    /\ UNCHANGED initial

(* Deck.draw_hand(size) on deck d: an exception of draw leaves no Hand *)
DrawHand(d, size) ==
    /\ decks[d].draws < MaxDraws
    /\ LET ref == decks[d].cards
           r == DeckDraw(heap[ref], decks[d].draws, size)
       IN /\ heap' = [heap EXCEPT ![ref] = r.cards]
          /\ decks' = [decks EXCEPT ![d].draws = r.draws]
          /\ drawn' = [drawn EXCEPT ![d] = @ (+) BagOfSeq(r.popped)]
          /\ last' = [op |-> "draw_hand", d |-> d, times |-> size, raised |-> r.raised]
          /\ hand' = IF r.raised THEN NoHand ELSE HandNew(r.ret)
    /\ UNCHANGED initial

(* Deck.shuffle(times) on deck d *)
Shuffle(d, times) ==
    /\ decks[d].shuffles + times <= MaxShuffles
    /\ LET ref == decks[d].cards IN
       \E o \in ShuffleLoop(heap[ref], decks[d].shuffles, times) :
          /\ heap' = [heap EXCEPT ![ref] = o.cards]
          /\ decks' = [decks EXCEPT ![d].shuffles = o.shuffles]
    /\ last' = [op |-> "shuffle", d |-> d, times |-> times]
    /\ hand' = NoHand
    /\ UNCHANGED <<initial, drawn>>

(* the comparisons of Card on a = d.top and b = d.bottom *)
CompareTopBottom(d) ==
    /\ cards_left(d) > 0
    /\ last' = [op |-> "compare", d |-> d, a |-> top(d), b |-> bottom(d),
                lt |-> CardLt(top(d), bottom(d)), gt |-> CardGt(top(d), bottom(d)),
                le |-> CardLe(top(d), bottom(d)), ge |-> CardGe(top(d), bottom(d)),
                eq |-> CardEq(top(d), bottom(d))]
    /\ hand' = NoHand
    /\ UNCHANGED <<heap, decks, initial, drawn>>

Next ==
    \/ \E d \in DOMAIN decks, times \in 0..MaxTimes : Draw(d, times)
    \/ \E d \in DOMAIN decks, size \in 0..MaxTimes : DrawHand(d, size)
    \/ \E d \in DOMAIN decks, times \in 0..MaxTimes : Shuffle(d, times)
    \/ \E d \in DOMAIN decks : CompareTopBottom(d)

(* the lists a caller may hold: up to MaxSupplied cards of the deck's suits *)
(* and values, a card possibly more than once                              *)
SuppliedLists ==
    UNION {[1..n -> Range(DefaultCards)] : n \in 0..MaxSupplied}

(* the heap before any deck: the caller's list, when the caller holds one *)
Start(holds, L) ==
    [heap |-> IF holds THEN (Caller :> L) ELSE NoObjects,
     decks |-> NoObjects, initial |-> NoObjects, drawn |-> NoObjects]

(* one deck: Deck(shuffle=s), or Deck(cards=L, shuffle=s) on the caller's list L *)
Init ==
    \E arg \in {NoList, Caller}, shuffle \in BOOLEAN :
    \E L \in IF arg = NoList THEN {<<>>} ELSE SuppliedLists :
    \E st \in DeckNew(Start(arg # NoList, L), 1, arg, shuffle) :
        /\ heap = st.heap /\ decks = st.decks
        /\ initial = st.initial /\ drawn = st.drawn
        /\ hand = NoHand
        /\ last = [op |-> "Deck", d |-> 1, given |-> (arg # NoList), arg |-> L,
                   shuffle |-> shuffle]

Spec == Init /\ [][Next]_vars

(* two decks made from the one non-empty list L the caller holds:          *)
(* Deck(cards=L, shuffle=s1), then Deck(cards=L, shuffle=s2)               *)
InitShared ==
    \E L \in SuppliedLists \ {<<>>} :
    \E arg1 \in {Caller}, arg2 \in {Caller}, s1 \in BOOLEAN, s2 \in BOOLEAN :
    \E st1 \in DeckNew(Start(TRUE, L), 1, arg1, s1) :
    \E st \in DeckNew(st1, 2, arg2, s2) :
        /\ heap = st.heap /\ decks = st.decks
        /\ initial = st.initial /\ drawn = st.drawn
        /\ hand = NoHand
        /\ last = [op |-> "Deck", d |-> 2, given |-> (arg2 # NoList), arg |-> st1.heap[Caller],
                   shuffle |-> s2]

SpecShared == InitShared /\ [][Next]_vars

----------------------------------------------------------------------------
(* The calls on a hand *)

(* Hand.rank of a non-empty hand *)
RankOf ==
    /\ hand # NoHand /\ hand.size > 0
    /\ last' = [op |-> "rank", rank |-> HandRank(hand)]
    /\ UNCHANGED <<heap, decks, hand, initial, drawn>>

(* Hand.is_straight of a non-empty hand *)
IsStraight ==
    /\ hand # NoHand /\ hand.size > 0
    /\ last' = [op |-> "is_straight", ret |-> is_straight(hand)]
    /\ UNCHANGED <<heap, decks, hand, initial, drawn>>

NextHand == RankOf \/ IsStraight

(* the cards hands are made of: every value, in spades and clubs *)
HandSuits == SubSeq(SuitsAll, 1, 2)
HandCards == Enumerate(HandSuits, ValuesAll)

(* an index list i1 <= ... <= in *)
Rising(ix) == \A i \in DOMAIN ix \ {1} : ix[i - 1] <= ix[i]

(* the state after Hand(cards) *)
InitOf(cards) ==
    /\ hand = HandNew(cards)
    /\ last = [op |-> "Hand"]
    /\ heap = NoObjects /\ decks = NoObjects
    /\ initial = NoObjects /\ drawn = NoObjects

(* Hand(cards), cards any 1..MaxHandSize of HandCards, a card possibly more *)
(* than once                                                               *)
InitHand ==
    \E n \in 1..MaxHandSize : \E ix \in [1..n -> DOMAIN HandCards] :
        /\ Rising(ix)
        /\ InitOf([i \in 1..n |-> HandCards[ix[i]]])

SpecHand == InitHand /\ [][NextHand]_vars

(* the cards of the five-card hands: all four suits of the values that make *)
(* the runs around the ace, A 2 3 4 5 and T J Q K A                         *)
RunValues == <<1, 2, 3, 4, 5, 10, 11, 12, 13>>
RunCards == Enumerate(SuitsAll, RunValues)

(* Hand(cards), cards any five distinct cards of RunCards *)
InitHand5 ==
    \E a \in 1..Len(RunCards) : \E b \in (a + 1)..Len(RunCards) :
    \E c \in (b + 1)..Len(RunCards) : \E d \in (c + 1)..Len(RunCards) :
    \E e \in (d + 1)..Len(RunCards) :
        InitOf(<<RunCards[a], RunCards[b], RunCards[c], RunCards[d], RunCards[e]>>)

SpecHand5 == InitHand5 /\ [][RankOf]_vars

----------------------------------------------------------------------------
(* Claims on the deck *)

IsDeckCall(op) == op \in {"draw", "draw_hand", "shuffle"}
LiveOf(h, ds, d) == h[ds[d].cards]

(* C1: a draw of more cards than the deck holds fails, and the failed call  *)
(* leaves the live sequence as it was: same cards, same order.              *)
C1_FailedDrawKeepsCards ==
    [][(last'.op = "draw" /\ last'.times > cards_left(last'.d))
         => (last'.raised /\ LiveOf(heap', decks', last'.d) = LiveOf(heap, decks, last'.d))]_vars

(* C2: in every state draws + cards_left is the number of cards the deck    *)
(* held at construction.                                                   *)
C2_DrawsPlusLeft ==
    \A d \in DOMAIN decks : decks[d].draws + cards_left(d) = initial[d]

(* the pairs the default deck enumerates *)
EnumeratedPairs == {Card(v, s) : v \in Range(DeckValues), s \in Range(DeckSuits)}

(* C3: for a deck of the default enumeration, the cards removed so far and  *)
(* the live cards are together every (Value, Suit) pair exactly once, so a  *)
(* removed card is never removed again nor reported present.                *)
C3_NoCardTwice ==
    \A d \in DOMAIN decks : decks[d].cards = d =>
        /\ initial[d] = Len(DeckSuits) * Len(DeckValues)
        /\ drawn[d] (+) BagOfSeq(heap[d]) = SetToBag(EnumeratedPairs)
        /\ \A c \in BagToSet(drawn[d]) : ~DeckContains(heap[d], c)

C3_Witness ==
    /\ decks[1].cards = 1 /\ decks[1].shuffles >= 2
    /\ last.op = "draw" /\ last.times = 2 /\ ~last.raised
    /\ BagCardinality(drawn[1]) = 3 /\ cards_left(1) = 1

(* C4: shuffle(times) keeps cards_left, the multiset of live cards and the  *)
(* draw counter, and adds exactly times to the shuffle counter.             *)
C4_ShuffleFrame ==
    [][last'.op = "shuffle" =>
         /\ decks'[last'.d].cards = decks[last'.d].cards
         /\ Len(LiveOf(heap', decks', last'.d)) = cards_left(last'.d)
         /\ BagOfSeq(LiveOf(heap', decks', last'.d)) = BagOfSeq(LiveOf(heap, decks, last'.d))
         /\ decks'[last'.d].draws = decks[last'.d].draws
         /\ decks'[last'.d].shuffles = decks[last'.d].shuffles + last'.times]_vars

C4_Witness ==
    /\ last.op = "shuffle" /\ last.times >= 2
    /\ decks[1].cards = 1 /\ decks[1].shuffles = last.times
    /\ BagCardinality(drawn[1]) = 1
    /\ heap[1] # SubSeq(DefaultCards, 1, Len(DefaultCards) - 1)

(* C7: the ordering of cards looks at the value only: a <= b iff            *)
(* strength(a) <= strength(b), a >= b iff strength(a) >= strength(b), and   *)
(* a == b iff value and suit agree.                                        *)
C7_OrderByValue ==
    last.op = "compare" =>
        /\ last.le <=> (last.a.value <= last.b.value)
        /\ last.ge <=> (last.a.value >= last.b.value)
        /\ last.lt <=> (last.a.value < last.b.value)
        /\ last.gt <=> (last.a.value > last.b.value)
        /\ last.eq <=> (last.a = last.b)

(* C8: a deck made from a caller's list holds exactly the cards of that     *)
(* list, whatever the list, the empty one included.                        *)
C8_GivenListUsed ==
    (last.op = "Deck" /\ last.given) =>
        /\ decks[last.d].cards = Caller
        /\ cards_left(last.d) = Len(last.arg)
        /\ BagOfSeq(heap[decks[last.d].cards]) = BagOfSeq(last.arg)

(* C9: a draw or a shuffle on one deck leaves every other deck's live       *)
(* sequence and counters as they were.                                     *)
C9_DecksIndependent ==
    [][\A d \in DOMAIN decks :
         (IsDeckCall(last'.op) /\ last'.d # d) =>
             /\ LiveOf(heap', decks', d) = LiveOf(heap, decks, d)
             /\ decks'[d] = decks[d]]_vars

----------------------------------------------------------------------------
(* Claims on the hand *)

(* a run of as many values as cards, every ace counted as `ace` *)
RefRun(cs, ace) ==
    \E lo \in 1..14 :
        {IF cs[i].value = 1 THEN ace ELSE cs[i].value : i \in DOMAIN cs} = lo..(lo + Len(cs) - 1)

RefDistinct(cs) == \A i, j \in DOMAIN cs : i # j => cs[i].value # cs[j].value

RefStraight(cs) == RefDistinct(cs) /\ (RefRun(cs, 1) \/ RefRun(cs, 14))

Aces(cs) == Cardinality({i \in DOMAIN cs : cs[i].value = 1})

(* the hand of these values, its suits going round *)
HandOfValues(vs) == HandNew([i \in DOMAIN vs |-> Card(vs[i], SuitsAll[((i - 1) % Len(SuitsAll)) + 1])])

(* the runs around the ace that the claim names *)
NamedRuns ==
    /\ is_straight(HandOfValues(<<1, 2, 3, 4, 5>>))
    /\ is_straight(HandOfValues(<<10, 11, 12, 13, 1>>))
    /\ ~is_straight(HandOfValues(<<12, 13, 1, 2, 3>>))

(* C5: is_straight holds iff the values are distinct and are a run with the *)
(* aces as 1 or with the aces as 14; A2345 and TJQKA are straights, QKA23   *)
(* is none, and no hand of two aces is one.                                *)
C5_Straight ==
    /\ NamedRuns
    /\ last.op = "is_straight" =>
          /\ last.ret <=> RefStraight(hand._cards)
          /\ Aces(hand._cards) >= 2 => ~last.ret

C5_Witness ==
    /\ last.op = "is_straight" /\ last.ret
    /\ hand.size >= 3
    /\ \E i, j \in DOMAIN hand.cards : hand.cards[i].value = 1 /\ hand.cards[j].value = 13

RankHolds(r, h) ==
    CASE r = STRAIGHT_FLUSH -> is_straight_flush(h)
      [] r = FOUR_OF_A_KIND -> is_four_of_a_kind(h)
      [] r = FULL_HOUSE -> is_full_house(h)
      [] r = FLUSH -> is_flush(h)
      [] r = STRAIGHT -> is_straight(h)
      [] r = THREE_OF_A_KIND -> is_three_of_a_kind(h)
      [] r = TWO_PAIR -> is_two_pair(h)
      [] r = PAIR -> is_one_pair(h)
      [] r = HIGH_CARD -> TRUE

RefPairs(cs) == Cardinality({p \in (DOMAIN cs) \X (DOMAIN cs) : p[1] < p[2] /\ cs[p[1]].value = cs[p[2]].value})
RefFlush(cs) == \A i \in DOMAIN cs : cs[i].suit = cs[1].suit
RefRun5(cs) ==
    \E lo \in 1..10 :
        {cs[i].value : i \in DOMAIN cs} = {IF lo + k = 14 THEN 1 ELSE lo + k : k \in 0..4}

RefRank5(cs) ==
    IF RefRun5(cs) /\ RefFlush(cs) THEN "straight flush"
    ELSE IF RefPairs(cs) = 6 THEN "four of a kind"
    ELSE IF RefPairs(cs) = 4 THEN "full house"
    ELSE IF RefFlush(cs) THEN "flush"
    ELSE IF RefRun5(cs) THEN "straight"
    ELSE IF RefPairs(cs) = 3 THEN "three of a kind"
    ELSE IF RefPairs(cs) = 2 THEN "two pair"
    ELSE IF RefPairs(cs) = 1 THEN "pair"
    ELSE "high card"

(* C10: the rank of five distinct cards is the one category the reference   *)
(* classification of poker gives them.                                     *)
C10_PokerRank ==
    last.op = "rank" =>
        /\ last.rank \in Ranks
        /\ last.rank.name = RefRank5(hand._cards)

C10_Witness ==
    /\ last.op = "rank" /\ last.rank = FULL_HOUSE
    /\ hand.size = 5 /\ Cardinality(Range(hand._cards)) = 5

====
